---- MODULE Spec2Model ----
(***************************************************************************)
(* dnsbench (src/main.rs): a pool of worker threads, each owning one       *)
(* connected UDP socket, sends DNS queries tagged with an id taken from a  *)
(* shared Mutex<u16>, waits for the matching reply and reports every       *)
(* outcome over an mpsc channel to the main thread, which counts them.     *)
(***************************************************************************)
EXTENDS Integers, Sequences, FiniteSets, TLC

(* ------------------------------ bounds --------------------------------- *)

\* largest worker count (-p) explored
MaxThreads == 2

\* largest per-worker query count (-n) explored
MaxNumber == 2

\* largest number of iteration results and AllFinished events a run is to
\* produce (threads * (number + 1)) explored
MaxEvents == 4

\* largest number of mismatched replies one iteration receives
MaxMismatch == 1

\* largest --timeout, in time units, explored with a clock
MaxTimeout == 1

\* largest lateness, in time units, of a socket.recv explored: the time by
\* which it returns after its read timeout has passed
MaxLate == 1

(* ------------------------- program constants --------------------------- *)

\* number of values of the u16 behind the mutex
IdMod == 65536

\* i32::MAX, the largest value of main's counters sent, success, timeout and
\* failed
I32Max == 2147483647

\* u16::MAX + 1: two u32 factors that both reach it overflow a u32 product
U16Range == 65536

\* default of --timeout, standing for any non-zero timeout
DefaultTimeout == 500

\* the verbosity levels the code distinguishes (debug >= 1, debug >= 2)
DebugLevels == 0..2

\* --timeout values: zero (rejected by set_read_timeout) and non-zero
TimeoutValues == {0, DefaultTimeout}

\* sizes of the vector read_domains returns: empty or not
PoolSizes == {0, 1}

\* io::ErrorKind of an expired read timeout: Windows / Unix
TimedOutKinds == {"TimedOut", "WouldBlock"}

\* --record values: the two the match accepts and one it does not
RecordValues == {"A", "AAAA", "MX"}

VARIABLES
    args,          \* Args: threads, number, debug, timeout
    domains,       \* length of the Domain Pool
    timedOutKind,  \* io::ErrorKind the platform gives an expired read timeout
    id,            \* the u16 inside the Mutex
    lock,          \* worker holding the MutexGuard, 0 when free
    poisoned,      \* the Mutex's poison flag
    chan,          \* the mpsc channel: sequence of <<status, tid>>
    pc,            \* position of each worker thread
    iter,          \* iterations of `for _ in 0..number` each worker completed
    rid,           \* each worker's `rid`, 0 outside the loop body
    depth,         \* recursive calls of recv_resp in the current iteration
    panicLine,     \* source line at which a worker thread panicked, 0 if none
    sent, success, timeout, failed, all_finished,   \* main's counters
    agg,           \* main thread: "spawning" in the for loop, "running" in the
                   \* aggregator loop, "alldone" after its break, "done"
                   \* after the ALLDONE line, "panicked" once
                   \* it has unwound (rx dropped), "exited" when the process
                   \* has ended after a panic of main
    mainPanic,     \* source line at which main panicked, 0 if none
    stdout,        \* the standard output: "open", or "closed" (a pipe whose
                   \* reader has gone)
    iterEv,        \* history: statuses a worker sent in its unfinished iteration
    issued,        \* history: pre-increment values read from the Mutex, in order
    allocBase,     \* history: allocations that precede the first recorded one
    sendFailures,  \* history: iterations whose socket.send failed
    expired,       \* history: socket.recv calls that ran into the read timeout
    wrongSuccess,  \* history: Success returned for a reply whose id is not rid
    record,        \* Args.record
    spawned,       \* worker threads main has spawned
    produced,      \* history: events sent to the channel
    matched,       \* history: decoded replies received that carried rid
    waited,        \* history: time a worker's current iteration spent in recv
    clock,         \* the system clock against `now` of line 23: "ok", or
                   \* "back" once it has been set to a time before `now`
    iterBase       \* history: iterations of each worker that the histories
                   \* produced and sendFailures leave out, 0 when they count
                   \* from the first iteration

vars == <<args, domains, timedOutKind, id, lock, poisoned, chan, pc, iter, rid,
          depth, panicLine, sent, success, timeout, failed, all_finished, agg,
          iterEv, issued, allocBase, sendFailures, expired, wrongSuccess,
          record, clock, spawned, produced, matched, waited, mainPanic, stdout,
          iterBase>>

Workers == 1..args.threads

(* ---------------------------- pure parts ------------------------------- *)

\* a lock that excludes nobody
LockFreeAlways(l) == TRUE

\* Mutex::lock succeeds for a thread only while no other holds the guard
LockFree(l) == l = 0

\* an increment that stops at u16::MAX
SaturatingInc(v) == IF v = IdMod - 1 THEN v ELSE v + 1

\* `*id += 1` on u16 in a build without overflow checks
WrappingInc(v) == (v + 1) % IdMod

\* `*id += 1` overflows
Overflows(v) == v + 1 >= IdMod

\* lines 152-156, send_req's status: socket.send Ok / Err
SendStatus(ok) == IF ok THEN "Sent" ELSE "Failed"

\* line 53, `if status == WorkerStatus::Sent` guards the call of recv_resp
CallsRecv(status) == status = "Sent"

\* recv_resp's match on e.kind()
ErrStatus(kind) == IF kind = "TimedOut" THEN "Timeout" ELSE "Failed"

\* an id test that accepts every decoded reply
IdMatchesAny(replyId, reqId) == TRUE

\* line 181, `v.header.id == id`
IdMatches(replyId, reqId) == replyId = reqId

\* lines 179-191, recv_resp after socket.recv returned Ok: Packet::parse and
\* the id test give a status, "retry" (the recursive call) or "panic"
\* (v.questions[0] out of bounds)
ParseResult(p, reqId, debug) ==
    IF p.kind = "garbage" THEN "Failed"
    ELSE IF IdMatches(p.id, reqId)
         THEN IF debug >= 2 /\ p.nq = 0 THEN "panic" ELSE "Success"
         ELSE "retry"

\* the errors socket.recv can return: the read timeout ran out (the kind of
\* that error is the platform's), or anything else
RecvErrors(expiredKind) == {expiredKind, "ConnectionRefused"}

\* the datagrams socket.recv can hand a worker waiting for reqId: bytes that
\* do not decode, or a packet carrying the awaited id (with or without a
\* question record) or the id allocated before it
Datagrams(reqId) ==
    { [kind |-> "garbage", id |-> 0, nq |-> 0] }
    \cup
    { [kind |-> "reply", id |-> reqId, nq |-> q] : q \in {0, 1} }
    \cup
    { [kind |-> "reply", id |-> (reqId + IdMod - 1) % IdMod, nq |-> 1] }

\* println! under `if debug >= level`: it panics when stdout is closed
PrintFails(debug, level, out) == debug >= level /\ out = "closed"

\* tx.send(..) returns Err once the Receiver has been dropped
Disconnected(a) == a = "panicked"

\* lines 71-74: `+= 1` on an i32 counter overflows
I32Overflows(n, status, arm) == status = arm /\ n = I32Max

\* lines 71-74, an i32 counter of the match in a build without overflow
\* checks
BumpI32(n, status, arm) ==
    IF status = arm THEN (IF n = I32Max THEN -I32Max - 1 ELSE n + 1) ELSE n

\* lines 71-75: the line of the match arm of a status
ArmLine(status) ==
    CASE status = "Sent" -> 71
      [] status = "Success" -> 72
      [] status = "Timeout" -> 73
      [] status = "Failed" -> 74
      [] OTHER -> 75

\* line 77, `args.threads * args.number` on u32: the product exceeds
\* u32::MAX = 2 * I32Max + 1
MulOverflows(t, n) ==
    LET a == IF t <= n THEN t ELSE n
        b == IF t <= n THEN n ELSE t
    IN  /\ a >= 2
        /\ \/ a >= U16Range
           \/ b > 2 * (I32Max \div a) + (2 * (I32Max % a) + 1) \div a

\* a match arm that adds 2
BumpTwice(n, status, arm) == IF status = arm THEN n + 2 ELSE n

\* line 75, the u32 counter all_finished of the match
Bump(n, status, arm) == IF status = arm THEN n + 1 ELSE n

\* `if all_finished == args.threads { break; }`
Breaks(af, threads) == af = threads

(* ------------------------------- Init ---------------------------------- *)

WorkerInit ==
    /\ lock = 0
    /\ poisoned = FALSE
    /\ chan = <<>>
    /\ pc = [w \in Workers |-> "loop"]
    /\ rid = [w \in Workers |-> 0]
    /\ depth = [w \in Workers |-> 0]
    /\ panicLine = [w \in Workers |-> 0]
    /\ iterEv = [w \in Workers |-> <<>>]
    /\ issued = <<>>
    /\ sent = 0 /\ success = 0 /\ timeout = 0 /\ all_finished = 0
    /\ expired = 0
    /\ wrongSuccess = 0
    /\ matched = 0
    /\ waited = [w \in Workers |-> 0]
    /\ mainPanic = 0
    /\ stdout = "open"
    /\ clock = "ok"

\* main up to the aggregator loop: arguments parsed, pool read, every worker
\* spawned (so --record was A or AAAA, which differ only in the bytes sent),
\* the counter at 0, stdout open, the clock not set back
Init ==
    /\ args \in [threads : 0..MaxThreads, number : 0..MaxNumber,
                 debug : DebugLevels, timeout : TimeoutValues]
    /\ args.threads * (args.number + 1) <= MaxEvents
    /\ domains \in PoolSizes
    /\ timedOutKind \in TimedOutKinds
    /\ id = 0
    /\ allocBase = 0
    /\ iter = [w \in Workers |-> 0]
    /\ failed = 0
    /\ sendFailures = 0
    /\ produced = 0
    /\ iterBase = 0
    /\ record = "A"
    /\ spawned = args.threads
    /\ agg = "running"
    /\ WorkerInit

(* ------------------------------ workers -------------------------------- *)

Panic(w, line) ==
    /\ pc' = [pc EXCEPT ![w] = "panicked"]
    /\ panicLine' = [panicLine EXCEPT ![w] = line]

\* a channel that hands out the newest event first
EmitFront(w, status) ==
    /\ chan' = <<<<status, w>>>> \o chan
    /\ produced' = produced + 1

\* tx.send((status, tid)) on the unbounded channel: it never blocks
Emit(w, status) ==
    /\ chan' = Append(chan, <<status, w>>)
    /\ produced' = produced + 1

\* lines 41-43: the loop goes on; id.lock().unwrap(); let rid = *id
Lock(w) ==
    /\ pc[w] = "loop"
    /\ iter[w] < args.number
    /\ LockFree(lock)
    /\ IF poisoned
       THEN /\ Panic(w, 42)
            /\ UNCHANGED <<lock, rid, issued>>
       ELSE /\ lock' = w
            /\ rid' = [rid EXCEPT ![w] = id]
            /\ issued' = Append(issued, id)
            /\ pc' = [pc EXCEPT ![w] = "incr"]
            /\ UNCHANGED panicLine
    /\ waited' = [waited EXCEPT ![w] = 0]
    /\ UNCHANGED <<args, domains, timedOutKind, id, poisoned, chan, iter, depth,
                   sent, success, timeout, failed, all_finished, agg, iterEv,
                   allocBase, sendFailures, expired, wrongSuccess, record,
                   clock, iterBase, spawned, produced, matched, mainPanic,
                   stdout>>

\* a guard that lives on to the end of the loop body
GuardKept(w) == w

\* line 45, drop(id): the holder of the Mutex once worker w has dropped its
\* guard
GuardDropped(w) == 0

\* lines 44-45: *id += 1; drop(id). 65535 + 1 overflows: a build with
\* overflow checks (the dev profile) panics while the guard is held, which
\* poisons and releases the Mutex; a build without (the release profile) wraps
Incr(w) ==
    /\ pc[w] = "incr"
    /\ lock' = GuardDropped(w)
    /\ \E overflowChecks \in BOOLEAN :
       IF Overflows(id) /\ overflowChecks
       THEN /\ Panic(w, 44)
            /\ poisoned' = TRUE
            /\ UNCHANGED id
       ELSE /\ id' = WrappingInc(id)
            /\ pc' = [pc EXCEPT ![w] = "send"]
            /\ UNCHANGED <<panicLine, poisoned>>
    /\ UNCHANGED <<args, domains, timedOutKind, chan, iter, rid, depth, sent,
                   success, timeout, failed, all_finished, agg, iterEv, issued,
                   allocBase, sendFailures, expired, wrongSuccess, record,
                   clock, iterBase, spawned, produced, matched, waited,
                   mainPanic, stdout>>

\* the end of the loop body: the local rid goes out of scope
EndIteration(w) ==
    /\ iter' = [iter EXCEPT ![w] = @ + 1]
    /\ pc' = [pc EXCEPT ![w] = "loop"]
    /\ rid' = [rid EXCEPT ![w] = 0]
    /\ depth' = [depth EXCEPT ![w] = 0]
    /\ iterEv' = [iterEv EXCEPT ![w] = <<>>]
    /\ UNCHANGED panicLine

\* a panic of worker w inside its loop body: nothing is sent and the
\* iteration is left unfinished
PanicInBody(w, line) ==
    /\ Panic(w, line)
    /\ UNCHANGED <<chan, produced, iter, rid, depth, iterEv>>

\* lines 52 and 55, the tx.send(..).unwrap() that ends an iteration: the
\* send fails and the unwrap panics once main has dropped the Receiver
Report(w, status, line) ==
    IF Disconnected(agg)
    THEN PanicInBody(w, line)
    ELSE Emit(w, status) /\ EndIteration(w)

\* println! is called under `if debug >= level`
Prints(debug, level) == debug >= level

\* lines 51-53: send_req (socket.send), tx.send(..).unwrap(), and the test
\* that decides whether recv_resp is called
SendReq(w) ==
    \E ok \in BOOLEAN :
    LET status == SendStatus(ok) IN
    /\ sendFailures' = IF ok THEN sendFailures ELSE sendFailures + 1
    /\ IF CallsRecv(status)
       THEN IF Disconnected(agg)
            THEN PanicInBody(w, 52)
            ELSE /\ Emit(w, status)
                 /\ pc' = [pc EXCEPT ![w] = "recv"]
                 /\ iterEv' = [iterEv EXCEPT ![w] = Append(@, status)]
                 /\ UNCHANGED <<iter, rid, depth, panicLine>>
       ELSE Report(w, status, 52)

\* lines 47-53: domains.choose(..).unwrap() and, with debug >= 2, the
\* println! of line 49, after which the thread is at line 51; without the
\* println! nothing outside the thread is touched before tx.send, and
\* lines 47-53 are one step
Send(w) ==
    /\ pc[w] = "send"
    /\ IF domains = 0
       THEN PanicInBody(w, 47) /\ UNCHANGED sendFailures
       ELSE IF Prints(args.debug, 2)
       THEN IF PrintFails(args.debug, 2, stdout)
            THEN PanicInBody(w, 49) /\ UNCHANGED sendFailures
            ELSE /\ pc' = [pc EXCEPT ![w] = "sendreq"]
                 /\ UNCHANGED <<panicLine, chan, produced, iter, rid, depth,
                                iterEv, sendFailures>>
       ELSE SendReq(w)
    /\ UNCHANGED <<args, domains, timedOutKind, id, lock, poisoned, sent,
                   success, timeout, failed, all_finished, agg, issued,
                   allocBase, expired, wrongSuccess, record, clock, iterBase,
                   spawned, matched, waited, mainPanic, stdout>>

\* lines 51-53 after the println! of line 49 has returned
SendAfterPrint(w) ==
    /\ pc[w] = "sendreq"
    /\ SendReq(w)
    /\ UNCHANGED <<args, domains, timedOutKind, id, lock, poisoned, sent,
                   success, timeout, failed, all_finished, agg, issued,
                   allocBase, expired, wrongSuccess, record, clock, iterBase,
                   spawned, matched, waited, mainPanic, stdout>>

\* lines 54-55 and 161-192: one call of recv_resp, the first or a recursive
\* one: set_read_timeout(..).unwrap(), socket.recv, Packet::parse, the id
\* test and the println! of debug >= 2. A status it returns without
\* printing is sent to the channel in the same step; after the println! of
\* line 183 the thread is at the tx.send of line 55
RecvCall(w) ==
    /\ pc[w] = "recv"
    /\ IF args.timeout = 0
       THEN /\ PanicInBody(w, 165)
            /\ UNCHANGED <<expired, wrongSuccess, matched>>
       ELSE \/ \E kind \in RecvErrors(timedOutKind) :
                /\ Report(w, ErrStatus(kind), 55)
                /\ expired' = IF kind = timedOutKind THEN expired + 1 ELSE expired
                /\ UNCHANGED <<wrongSuccess, matched>>
            \/ \E p \in Datagrams(rid[w]) :
                LET res == ParseResult(p, rid[w], args.debug) IN
                /\ res = "retry" => depth[w] < MaxMismatch
                /\ matched' = IF p.kind = "reply" /\ p.id = rid[w]
                              THEN matched + 1 ELSE matched
                /\ UNCHANGED expired
                /\ CASE res = "panic" ->
                          /\ PanicInBody(w, 183)
                          /\ UNCHANGED wrongSuccess
                     [] res = "Success" /\ PrintFails(args.debug, 2, stdout) ->
                          /\ PanicInBody(w, 183)
                          /\ UNCHANGED wrongSuccess
                     [] res = "Success" /\ Prints(args.debug, 2)
                        /\ stdout = "open" ->
                          /\ pc' = [pc EXCEPT ![w] = "report"]
                          /\ wrongSuccess' = IF p.id # rid[w]
                                             THEN wrongSuccess + 1
                                             ELSE wrongSuccess
                          /\ UNCHANGED <<chan, produced, iter, rid, depth,
                                         iterEv, panicLine>>
                     [] res = "retry" ->
                          /\ depth' = [depth EXCEPT ![w] = @ + 1]
                          /\ UNCHANGED <<chan, produced, iter, rid, iterEv, pc,
                                         panicLine, wrongSuccess>>
                     [] OTHER ->
                          /\ Report(w, res, 55)
                          /\ wrongSuccess' =
                               IF res = "Success" /\ p.id # rid[w]
                               THEN wrongSuccess + 1 ELSE wrongSuccess
    /\ UNCHANGED <<args, domains, timedOutKind, id, lock, poisoned, sent,
                   success, timeout, failed, all_finished, agg, issued,
                   allocBase, sendFailures, record, clock, iterBase, spawned,
                   mainPanic, stdout>>

\* a call of recv_resp, its duration not recorded
Recv(w) == RecvCall(w) /\ UNCHANGED waited

\* line 55 after recv_resp has printed "OK, .." and returned Success:
\* tx.send((status, tid)).unwrap()
ReportOk(w) ==
    /\ pc[w] = "report"
    /\ Report(w, "Success", 55)
    /\ UNCHANGED <<args, domains, timedOutKind, id, lock, poisoned, sent,
                   success, timeout, failed, all_finished, agg, issued,
                   allocBase, sendFailures, expired, wrongSuccess, record,
                   clock, iterBase, spawned, matched, waited, mainPanic,
                   stdout>>

\* lines 58-59: the loop is over; tx.send((AllFinished, tid)).unwrap()
Finish(w) ==
    /\ pc[w] = "loop"
    /\ iter[w] >= args.number
    /\ IF Disconnected(agg)
       THEN /\ Panic(w, 59)
            /\ UNCHANGED <<chan, produced>>
       ELSE /\ Emit(w, "AllFinished")
            /\ pc' = [pc EXCEPT ![w] = "done"]
            /\ UNCHANGED panicLine
    /\ UNCHANGED <<args, domains, timedOutKind, id, lock, poisoned, iter, rid,
                   depth, sent, success, timeout, failed, all_finished, agg,
                   iterEv, issued, allocBase, sendFailures, expired,
                   wrongSuccess, record, clock, iterBase, spawned, matched,
                   waited, mainPanic, stdout>>

(* ----------------------------- aggregator ------------------------------ *)

\* lines 71-74: the counter of `status` is at i32::MAX
CounterOverflows(status) ==
    \/ I32Overflows(sent, status, "Sent")
    \/ I32Overflows(success, status, "Success")
    \/ I32Overflows(timeout, status, "Timeout")
    \/ I32Overflows(failed, status, "Failed")

\* now.elapsed().unwrap(): SystemTime::elapsed is Err once the system clock
\* is earlier than `now`
ElapsedFails(c) == c = "back"

\* lines 70-83: the line at which main panics in the pass of the loop body
\* that handles `status`, 0 if it does not: an i32 counter or the u32
\* product overflows in a build with overflow checks, or, with debug >= 1,
\* now.elapsed().unwrap() of line 81 fails or the println! of line 79 finds
\* stdout closed
MainPanicAt(status, overflowChecks) ==
    IF overflowChecks /\ CounterOverflows(status)
    THEN ArmLine(status)
    ELSE IF overflowChecks /\ MulOverflows(args.threads, args.number)
    THEN 77
    ELSE IF Prints(args.debug, 1) /\ ElapsedFails(clock)
    THEN 81
    ELSE IF PrintFails(args.debug, 1, stdout)
    THEN 79
    ELSE 0

\* whether the build's overflow checks decide anything in this pass
MayOverflow(status) ==
    CounterOverflows(status) \/ MulOverflows(args.threads, args.number)

\* lines 68-87: rx.recv(), the match, the percent, the progress line and the
\* break test; on break main is at the ALLDONE line
AggRecv ==
    /\ agg = "running"
    /\ chan # <<>>
    /\ chan' = Tail(chan)
    /\ LET status == Head(chan)[1] IN
       \E overflowChecks \in (IF MayOverflow(status) THEN BOOLEAN ELSE {FALSE}) :
       LET line == MainPanicAt(status, overflowChecks) IN
       /\ IF line \in 71..74
          THEN UNCHANGED <<sent, success, timeout, failed, all_finished>>
          ELSE /\ sent' = BumpI32(sent, status, "Sent")
               /\ success' = BumpI32(success, status, "Success")
               /\ timeout' = BumpI32(timeout, status, "Timeout")
               /\ failed' = BumpI32(failed, status, "Failed")
               /\ all_finished' = Bump(all_finished, status, "AllFinished")
       /\ mainPanic' = line
       /\ agg' = IF line # 0 THEN "panicked"
                 ELSE IF Breaks(all_finished', args.threads) THEN "alldone"
                 ELSE "running"
    /\ UNCHANGED <<args, domains, timedOutKind, id, lock, poisoned, pc, iter,
                   rid, depth, panicLine, iterEv, issued, allocBase,
                   sendFailures, expired, wrongSuccess, record, clock, iterBase,
                   spawned, produced, matched, waited, stdout>>

\* lines 89-97 after the break: now.elapsed().unwrap() of line 96, the
\* println! of the ALLDONE line, and the return of main
AllDone ==
    /\ agg = "alldone"
    /\ LET line == IF ElapsedFails(clock) THEN 96
                   ELSE IF PrintFails(args.debug, 0, stdout) THEN 89
                   ELSE 0
       IN /\ mainPanic' = line
          /\ agg' = IF line # 0 THEN "panicked" ELSE "done"
    /\ UNCHANGED <<args, domains, timedOutKind, id, lock, poisoned, chan, pc,
                   iter, rid, depth, panicLine, sent, success, timeout, failed,
                   all_finished, iterEv, issued, allocBase, sendFailures,
                   expired, wrongSuccess, record, clock, iterBase, spawned,
                   produced, matched, waited, stdout>>

(* ----------------------------- environment ----------------------------- *)

\* the process is running: main has neither returned nor, after a panic,
\* ended the process
Alive(a) == a \notin {"done", "exited"}

\* the reader of the pipe that is the program's stdout goes away
CloseStdout ==
    /\ stdout = "open"
    /\ Alive(agg)
    /\ stdout' = "closed"
    /\ UNCHANGED <<args, domains, timedOutKind, id, lock, poisoned, chan, pc,
                   iter, rid, depth, panicLine, sent, success, timeout, failed,
                   all_finished, agg, iterEv, issued, allocBase, sendFailures,
                   expired, wrongSuccess, record, clock, iterBase, spawned,
                   produced, matched, waited, mainPanic>>

\* the system clock is set to a time before `now` of line 23
ClockBack ==
    /\ clock = "ok"
    /\ Alive(agg)
    /\ clock' = "back"
    /\ UNCHANGED <<args, domains, timedOutKind, id, lock, poisoned, chan, pc,
                   iter, rid, depth, panicLine, sent, success, timeout, failed,
                   all_finished, agg, iterEv, issued, allocBase, sendFailures,
                   expired, wrongSuccess, record, iterBase, spawned, produced,
                   matched, waited, mainPanic, stdout>>

\* the process ends after a panic of main, later than the unwinding of main:
\* the worker threads run until then
Exit ==
    /\ agg = "panicked"
    /\ agg' = "exited"
    /\ UNCHANGED <<args, domains, timedOutKind, id, lock, poisoned, chan, pc,
                   iter, rid, depth, panicLine, sent, success, timeout, failed,
                   all_finished, iterEv, issued, allocBase, sendFailures,
                   expired, wrongSuccess, record, clock, iterBase, spawned,
                   produced, matched, waited, mainPanic, stdout>>

\* line 39: worker w has been spawned and the process has not ended
Started(w) == w <= spawned /\ agg # "exited"

\* the threads of a run whose workers have all been spawned, and what
\* happens to the process from outside
Next ==
    \/ \E w \in Workers : Started(w) /\ Lock(w)
    \/ \E w \in Workers : Started(w) /\ Incr(w)
    \/ \E w \in Workers : Started(w) /\ Send(w)
    \/ \E w \in Workers : Started(w) /\ SendAfterPrint(w)
    \/ \E w \in Workers : Started(w) /\ Recv(w)
    \/ \E w \in Workers : Started(w) /\ ReportOk(w)
    \/ \E w \in Workers : Started(w) /\ Finish(w)
    \/ AggRecv
    \/ AllDone
    \/ CloseStdout
    \/ ClockBack
    \/ Exit

Spec == Init /\ [][Next]_vars

(* --------------------- a run about to wrap the u16 ---------------------- *)

\* iterations each of t workers has behind it when the counter is as close
\* below 65535 as t equal shares allow
WrapShare(t) == (IdMod - 1) \div t

\* the state of a run with number = WrapShare(threads) + r in which every
\* worker has completed WrapShare(threads) iterations, every send so far has
\* failed (one Failed event sent per iteration, line 52) and main has
\* counted every event
WrapInit ==
    /\ \E t \in 1..MaxThreads, r \in 1..MaxNumber :
         /\ t * (r + 1) <= MaxEvents
         /\ args \in [threads : {t}, number : {WrapShare(t) + r},
                      debug : DebugLevels, timeout : TimeoutValues]
    /\ domains = 1
    /\ timedOutKind \in TimedOutKinds
    /\ id = args.threads * WrapShare(args.threads)
    /\ allocBase = id
    /\ iter = [w \in Workers |-> WrapShare(args.threads)]
    /\ failed = id
    /\ sendFailures = id
    /\ produced = id
    /\ iterBase = 0
    /\ record = "A"
    /\ spawned = args.threads
    /\ agg = "running"
    /\ WorkerInit

SpecWrap == WrapInit /\ [][Next]_vars

(* ------------------ a run about to pass i32::MAX events ------------------ *)

\* iterations each of t workers has behind it when the i32 counter `failed`
\* (line 66) is as close below i32::MAX as t equal shares allow
CountShare(t) == I32Max \div t

\* the state of a run with number = CountShare(threads) + r in which every
\* worker has completed CountShare(threads) iterations, every send so far
\* has failed and main has counted every event; the u16 has wrapped on the
\* way (the build has no overflow checks). The histories produced and
\* sendFailures count from here on
CountInit ==
    /\ \E t \in 2..MaxThreads, r \in 1..MaxNumber :
         /\ t * (r + 1) <= MaxEvents
         /\ args \in [threads : {t}, number : {CountShare(t) + r},
                      debug : DebugLevels, timeout : TimeoutValues]
    /\ domains = 1
    /\ timedOutKind \in TimedOutKinds
    /\ iterBase = CountShare(args.threads)
    /\ iter = [w \in Workers |-> iterBase]
    /\ failed = args.threads * iterBase
    /\ id = failed % IdMod
    /\ allocBase = failed
    /\ sendFailures = 0
    /\ produced = 0
    /\ record = "A"
    /\ spawned = args.threads
    /\ agg = "running"
    /\ WorkerInit

SpecCount == CountInit /\ [][Next]_vars

(* ------------------------ the run from its start ------------------------ *)

\* lines 31-36: the query type of --record, "panic" for the `_` arm
RecordType(r) == IF r \in {"A", "AAAA"} THEN r ELSE "panic"

\* lines 19-25: arguments parsed, pool read, counter and channel created; no
\* worker spawned yet
StartInit ==
    /\ args \in [threads : 0..MaxThreads, number : 0..MaxNumber,
                 debug : DebugLevels, timeout : TimeoutValues]
    /\ args.threads * (args.number + 1) <= MaxEvents
    /\ domains \in PoolSizes
    /\ timedOutKind \in TimedOutKinds
    /\ record \in RecordValues
    /\ id = 0
    /\ allocBase = 0
    /\ iter = [w \in Workers |-> 0]
    /\ failed = 0
    /\ sendFailures = 0
    /\ produced = 0
    /\ iterBase = 0
    /\ spawned = 0
    /\ agg = "spawning"
    /\ WorkerInit

\* lines 26-61: one pass of the for loop: the match on --record, then
\* UdpSocket::bind(..).unwrap(), socket.connect(..).unwrap() and
\* thread::spawn, which panics when the system refuses the thread; a panic
\* unwinds main, which drops the Receiver
Spawn ==
    /\ agg = "spawning"
    /\ spawned < args.threads
    /\ \E bound, connected, threadCreated \in BOOLEAN :
         LET line == IF RecordType(record) = "panic" THEN 35
                     ELSE IF ~bound THEN 37
                     ELSE IF ~connected THEN 38
                     ELSE IF ~threadCreated THEN 39
                     ELSE 0
         IN /\ mainPanic' = line
            /\ agg' = IF line # 0 THEN "panicked" ELSE agg
            /\ spawned' = IF line # 0 THEN spawned ELSE spawned + 1
    /\ UNCHANGED <<args, domains, timedOutKind, id, lock, poisoned, chan, pc,
                   iter, rid, depth, panicLine, sent, success, timeout, failed,
                   all_finished, iterEv, issued, allocBase, sendFailures,
                   expired, wrongSuccess, record, clock, iterBase, produced,
                   matched, waited, stdout>>

\* lines 61-68: the for loop is over, main enters the aggregator loop
EnterLoop ==
    /\ agg = "spawning"
    /\ spawned = args.threads
    /\ agg' = "running"
    /\ UNCHANGED <<args, domains, timedOutKind, id, lock, poisoned, chan, pc,
                   iter, rid, depth, panicLine, sent, success, timeout, failed,
                   all_finished, iterEv, issued, allocBase, sendFailures,
                   expired, wrongSuccess, record, clock, iterBase, spawned,
                   produced, matched, waited, mainPanic, stdout>>

StartNext ==
    \/ Spawn
    \/ EnterLoop
    \/ CloseStdout
    \/ ClockBack
    \/ Exit
    \/ \E w \in Workers : Started(w) /\ Lock(w)
    \/ \E w \in Workers : Started(w) /\ Incr(w)
    \/ \E w \in Workers : Started(w) /\ Send(w)
    \/ \E w \in Workers : Started(w) /\ SendAfterPrint(w)
    \/ \E w \in Workers : Started(w) /\ Recv(w)
    \/ \E w \in Workers : Started(w) /\ ReportOk(w)
    \/ \E w \in Workers : Started(w) /\ Finish(w)
    \/ AggRecv
    \/ AllDone

SpecStart == StartInit /\ [][StartNext]_vars

(* ------------------------- fair scheduling ------------------------------ *)

\* lines 41-59: a step of worker thread w
WorkerStep(w) ==
    /\ Started(w)
    /\ \/ Lock(w) \/ Incr(w) \/ Send(w) \/ SendAfterPrint(w)
       \/ Recv(w) \/ ReportOk(w) \/ Finish(w)

\* the operating system runs every thread that can take a step: each worker
\* (a blocking receive returns, a free Mutex is taken) and main in rx.recv()
Fairness ==
    /\ \A w \in 1..MaxThreads : WF_vars(w \in Workers /\ WorkerStep(w))
    /\ WF_vars(AggRecv \/ AllDone)

SpecFair == Init /\ [][Next]_vars /\ Fairness

(* ------------------------- the run with a clock ------------------------- *)

\* lines 163-177: the time, in whole units, one socket.recv can take under
\* a read timeout of t > 0. The timeout is a lower bound of the wait: the
\* call that runs out returns at t or later, and a datagram or an error that
\* comes in before the late return is handed over, whether before t or not
Elapsed(t, ranOut) == IF ranOut THEN t..(t + MaxLate) ELSE 0..(t + MaxLate)

\* a call of recv_resp, its duration added to the time the iteration has
\* spent receiving; with a timeout of 0 the call panics before it receives
TimedRecv(w) ==
    /\ RecvCall(w)
    /\ IF args.timeout = 0
       THEN UNCHANGED waited
       ELSE \E d \in Elapsed(args.timeout, expired' # expired) :
              waited' = [waited EXCEPT ![w] = @ + d]

\* Init with --timeout in small time units
TimeInit ==
    /\ args \in [threads : 0..MaxThreads, number : 0..MaxNumber,
                 debug : DebugLevels, timeout : 0..MaxTimeout]
    /\ args.threads * (args.number + 1) <= MaxEvents
    /\ domains \in PoolSizes
    /\ timedOutKind \in TimedOutKinds
    /\ id = 0
    /\ allocBase = 0
    /\ iter = [w \in Workers |-> 0]
    /\ failed = 0
    /\ sendFailures = 0
    /\ produced = 0
    /\ iterBase = 0
    /\ record = "A"
    /\ spawned = args.threads
    /\ agg = "running"
    /\ WorkerInit

TimeNext ==
    \/ \E w \in Workers : Started(w) /\ Lock(w)
    \/ \E w \in Workers : Started(w) /\ Incr(w)
    \/ \E w \in Workers : Started(w) /\ Send(w)
    \/ \E w \in Workers : Started(w) /\ SendAfterPrint(w)
    \/ \E w \in Workers : Started(w) /\ TimedRecv(w)
    \/ \E w \in Workers : Started(w) /\ ReportOk(w)
    \/ \E w \in Workers : Started(w) /\ Finish(w)
    \/ AggRecv
    \/ AllDone
    \/ CloseStdout
    \/ ClockBack
    \/ Exit

SpecTime == TimeInit /\ [][TimeNext]_vars

(* ------------------------------ properties ------------------------------ *)

Total == args.threads * args.number

\* the Aggregator is Done: main has left the loop of lines 68-87 by its break
Done == agg \in {"alldone", "done"}

\* iterations and events that precede the histories produced and
\* sendFailures: every one a failed send, its Failed event counted by main
Before == args.threads * iterBase

\* iterations the histories cover: threads * number less those before
Rest == args.threads * (args.number - iterBase)

\* workers between the println! of line 183 and the tx.send of line 55
Reporting == Cardinality({w \in Workers : pc[w] = "report"})

\* events of one status waiting in the channel
InChan(status) == Cardinality({i \in 1..Len(chan) : chan[i][1] = status})

\* C1: a worker that has sent Sent for an iteration and not yet a terminal
\* event (Success, Timeout, Failed) for it is still in the receive step of
\* that iteration, so the terminal event is still to come before its
\* AllFinished
C1_SentHasTerminal ==
    \A w \in Workers : iterEv[w] = <<"Sent">> => pc[w] \in {"recv", "report"}

\* the pre-increment values handed out so far are pairwise distinct, those
\* before the recorded ones being 0 .. allocBase-1
AllDistinct ==
    /\ \A i \in 1..Len(issued) : issued[i] >= allocBase
    /\ \A i, j \in 1..Len(issued) : i # j => issued[i] # issued[j]

\* C2: as long as at most 65536 calls of the allocator have been made, under
\* every interleaving of the workers, no two calls have read the same
\* pre-increment value
C2_DistinctIds == allocBase + Len(issued) <= IdMod => AllDistinct

\* the 65536th call has been made while another worker is in its loop body
\* with an id of its own
C2_Witness ==
    /\ allocBase + Len(issued) = IdMod
    /\ \E v, w \in Workers :
         /\ v # w
         /\ pc[v] \in {"incr", "send", "sendreq", "recv", "report"}
         /\ pc[w] \in {"incr", "send", "sendreq", "recv", "report"}
         /\ rid[v] = IdMod - 1
         /\ rid[w] = IdMod - 2

\* C3: no Success is ever sent for a reply whose id differs from the id of
\* the request of the same iteration, and a worker that has received
\* mismatched replies has sent nothing for them: it is still waiting
C3_NoMismatchSuccess ==
    /\ wrongSuccess = 0
    /\ \A w \in Workers :
         depth[w] >= 1 => /\ pc[w] \in {"recv", "report", "panicked"}
                          /\ iterEv[w] = <<"Sent">>

\* a worker whose first query succeeded waits for the reply to its second,
\* has received a reply carrying the earlier id, and no second Success exists
C3_Witness ==
    \E w \in Workers :
      /\ pc[w] = "recv"
      /\ depth[w] >= 1
      /\ iter[w] = 1
      /\ args.threads = 1
      /\ success + InChan("Success") = 1

\* C4: the aggregator is Done in exactly the states where all_finished equals
\* the configured worker count, a worker count of 0 included
C4_DoneIffAllFinished == Done <=> (all_finished = args.threads)

\* C5: all_finished never exceeds the configured number of workers
C5_FinishedAtMostThreads == all_finished <= args.threads

\* the last of two workers has just been counted
C5_Witness == all_finished = args.threads /\ args.threads = 2 /\ agg = "done"

\* C6: when the aggregator is Done its counters account for every
\* iteration once: threads * number = send failures + sent and
\* success + timeout + failed = threads * number, so that
\* sent = success + timeout + (failed - send failures); the iterations
\* before the histories, all counted in `failed`, are taken off both sides
C6_Accounting ==
    Done =>
      /\ failed >= Before
      /\ Rest = sendFailures + sent
      /\ success + timeout + (failed - Before) = Rest
      /\ sent = success + timeout + ((failed - Before) - sendFailures)

\* C7: a worker of a run with a non-empty pool never stops without having
\* sent AllFinished, and has sent it only after `number` iterations
C7_EveryWorkerFinishes ==
    \A w \in Workers :
      /\ domains > 0 => pc[w] # "panicked"
      /\ pc[w] = "done" => iter[w] = args.number

\* C8: no outcome of send_req or recv_resp, for any timeout or verbosity,
\* ends the worker thread: no panic inside recv_resp
C8_FailuresContained ==
    \A w \in Workers : panicLine[w] \notin {165, 183}

\* C9: if every send failed, the final counts are sent = 0,
\* failed = threads * number, success = 0, timeout = 0,
\* workers_done = threads, and no receive timed out; the iterations before
\* the histories are taken off both sides of failed = threads * number
C9_AllSendsFail ==
    (Done /\ sendFailures = Rest) =>
      /\ sent = 0
      /\ failed >= Before
      /\ failed - Before = Rest
      /\ success = 0
      /\ timeout = 0
      /\ all_finished = args.threads
      /\ expired = 0

\* C10: if every send succeeded and every receive ran into the read timeout,
\* the final counts are timeout = sent = threads * number, success = 0,
\* failed = 0
C10_NoReplyMeansTimeout ==
    (Done /\ sendFailures = 0 /\ expired = Total) =>
      /\ timeout = Total
      /\ sent = Total
      /\ success = 0
      /\ failed = 0

\* C11: the allocator never errors: no worker panics in the allocation
\* (lock().unwrap() on line 42, *id += 1 on line 44), the Mutex is never
\* poisoned, and the allocation after the one that returned 65535 returns 0
C11_AllocatorNeverErrors ==
    /\ ~poisoned
    /\ \A w \in Workers : panicLine[w] \notin {42, 44}
    /\ \A i \in 1..(Len(issued) - 1) :
         issued[i + 1] = WrappingInc(issued[i])

\* C12: when main has panicked in the for loop (invalid --record, bind or
\* connect failure of any worker), no worker has been spawned and no query
\* has been attempted
C12_NoSpawnOnFatal ==
    mainPanic \in {35, 37, 38} =>
      /\ spawned = 0
      /\ \A w \in Workers : pc[w] = "loop" /\ iter[w] = 0
      /\ produced = 0

\* the events of worker w waiting in the channel, oldest first
EventsOf(w) == SelectSeq(chan, LAMBDA e : e[2] = w)

Terminal == {"Success", "Timeout", "Failed"}

\* C13: the channel holds the events of each worker in the order the worker
\* produced them: a Sent is followed by the terminal event of its iteration,
\* a Success or a Timeout follows its Sent, nothing follows AllFinished, and
\* the newest waiting event matches where the worker is now; main has never
\* counted a Success or a Timeout before the Sent of its iteration
C13_PerWorkerOrder ==
    /\ sent >= success + timeout
    /\ \A w \in Workers :
         LET q == EventsOf(w) IN
         /\ \A i \in 1..(Len(q) - 1) :
              /\ q[i][1] # "AllFinished"
              /\ q[i][1] = "Sent" => q[i + 1][1] \in Terminal
              /\ q[i + 1][1] \in {"Success", "Timeout"} => q[i][1] = "Sent"
         /\ q # <<>> =>
              /\ pc[w] \in {"recv", "report"} => q[Len(q)][1] = "Sent"
              /\ pc[w] = "done" => q[Len(q)][1] = "AllFinished"
              /\ pc[w] \in {"loop", "incr", "send", "sendreq"} =>
                   q[Len(q)][1] \in Terminal

\* the Sent and the terminal event of worker 1 wait in the channel with an
\* event of worker 2 between them
C13_Witness ==
    \E i, j, k \in 1..Len(chan) :
        /\ i < j /\ j < k
        /\ chan[i] = <<"Sent", 1>>
        /\ chan[j][2] = 2
        /\ chan[k][2] = 1 /\ chan[k][1] \in Terminal

\* C14: the time a worker has spent in the receive step of one iteration,
\* summed over all calls of recv_resp the iteration made, never exceeds the
\* configured timeout, the lateness of one socket.recv allowed for
C14_WaitWithinTimeout ==
    \A w \in Workers : waited[w] <= args.timeout + MaxLate

\* C15: under fair scheduling every run reaches natural completion: the
\* aggregator reaches Done (and so has received WorkerDone from every worker)
C15_ReachesDone == <>Done

\* C16: every decoded reply that carried the outstanding id has produced a
\* Success, at every verbosity and with or without a question record; and
\* when every query was answered by such a reply the final counts are
\* success = threads * number, failed = 0, timeout = 0
C16_MatchGivesSuccess ==
    /\ matched = success + InChan("Success") + Reporting
    /\ \A w \in Workers : panicLine[w] # 183
    /\ (Done /\ matched = Total) =>
         success = Total /\ failed = 0 /\ timeout = 0

\* workers that have read the counter and not yet stored its successor
Allocating ==
    Cardinality({w \in Workers : pc[w] = "incr" \/ panicLine[w] = 44})

\* C17: the counter is the number of completed allocations modulo 2^16 in
\* every state, so sends, send failures, receives and mismatched replies
\* leave it alone; once every worker has finished it is
\* (threads * number) mod 2^16
C17_OncePerAttempt ==
    /\ id = (allocBase + Len(issued) - Allocating) % IdMod
    /\ (\A w \in Workers : pc[w] = "done") => id = Total % IdMod

\* two workers have finished a run of 65536 queries, one send having
\* succeeded and one having failed, and the counter is back at 0
C17_Witness ==
    /\ args.threads = 2
    /\ \A w \in Workers : pc[w] = "done"
    /\ Total = IdMod
    /\ id = 0
    /\ sent + InChan("Sent") = 1

\* C18: with an empty domain pool no worker sends an event, and once every
\* worker has stopped on it the process has ended: main is not left in
\* rx.recv() waiting for events that cannot come
C18_EmptyPoolEndsRun ==
    (domains = 0 /\ args.threads >= 1 /\ args.number >= 1) =>
      /\ produced = 0
      /\ (\A w \in Workers : pc[w] = "panicked") => agg # "running"

\* C19: a worker holds the Mutex exactly while it is between the read and
\* the increment of the counter: never while it selects a domain, sends,
\* waits in recv_resp or has stopped; so whenever no worker is in that
\* allocation the Mutex is free for any worker to take, whoever is waiting
\* for a reply
C19_LockOnlyForAllocation ==
    /\ lock \in {0} \cup Workers
    /\ \A w \in Workers : lock = w <=> pc[w] = "incr"
    /\ (\A w \in Workers : pc[w] # "incr") => LockFree(lock)

\* one worker waits for a reply while another holds the Mutex and allocates
C19_Witness ==
    \E v, w \in Workers : pc[v] = "recv" /\ pc[w] = "incr" /\ lock = w

\* C20: when main has left the aggregator loop the channel is empty, every
\* worker has sent its AllFinished and stopped, and the counters hold every
\* event ever sent to the channel, each once: the Failed events before the
\* history `produced` in failed, the events of `produced` in the five
\* counters
C20_NothingLeftAtDone ==
    Done =>
      /\ chan = <<>>
      /\ \A w \in Workers : pc[w] = "done"
      /\ failed >= Before
      /\ sent + success + timeout + (failed - Before) + all_finished = produced

====
